---------------------------- MODULE Spec2Model ----------------------------
(***************************************************************************)
(* EntityDB: an entity-component store.  The model follows the relational  *)
(* backend (src/entitydb/entitydb_sqlite.py), its legacy single-file copy  *)
(* (src/entitydb.py), the backend base class (src/entitydb/entitydb.py),   *)
(* the entity (src/entitydb/entity.py), the system wrapper                 *)
(* (src/entitydb/system.py) and the operations the object-store backend    *)
(* (src/entitydb/entitydb_gcs.py) leaves to the base class.                *)
(*                                                                         *)
(* One SQLite database file is shared by the store instances.  A table is  *)
(* a set of rows, a row a function from column names to values, a Python   *)
(* dict a function whose domain is the dict's keys.  An exception is an    *)
(* outcome of the operation: the operation's record carries its name.      *)
(***************************************************************************)
EXTENDS Integers, Sequences, FiniteSets, TLC

\* ---------------------------------------------------------------- bounds
\* How many entity ids are drawn (add_entity calls) in one behaviour.
MaxEntities == 2
\* Field values range over 0..MaxVal; a handler increments below MaxVal only.
MaxVal == 1
\* Connections counted as left open; one more open connection is not told
\* apart from this many.
MaxOpen == 1

\* ------------------------------------------------------------- constants
PRIMARY_KEY == "_uid"
ENTITY_TABLE == "_entities"
ENTITY_REFERENCE == "_entity"

\* SQL NULL, Python None.
Null == -1
\* An attribute that was annotated but never assigned (Entity.uid, Entity.db).
Unset == 0

\* The store instances that share the database file: stores 1 and 2 are
\* EntityDB_SQLite objects of the package (src/entitydb/), store 3 is an
\* EntityDB of the single-file module (src/entitydb.py), whose code differs
\* in delete_entity only.
Stores == {1, 2, 3}
Impl(s) == IF s \in {1, 2} THEN "package" ELSE "legacy"
Writer == CHOOSE s \in Stores : Impl(s) = "package"
Reader == CHOOSE s \in Stores : Impl(s) = "package" /\ s # Writer
Legacy == CHOOSE s \in Stores : Impl(s) = "legacy"
\* Component classes of the client program: Counter{n} and the field-less A{}.
Types == {"Counter", "A"}
\* The order in which a dict of components is walked (keys() and values()
\* of one dict agree on it).
TypeOrder == <<"Counter", "A">>
FieldNames == {"n", "m"}
\* dir(o) is sorted by name.
FieldOrder == <<"m", "n">>
Val == 0..MaxVal

SAVE_ENTITY == 100
DELETE_ENTITY == 101
BREAK == 200
SystemCommands == {SAVE_ENTITY, DELETE_ENTITY, BREAK}

VARIABLES
    classes,            \* classes[s][T]: the fields class T declares in process s
    component_classes,  \* component_classes[s]: the names store s has registered
    db,                 \* the database file: schema and rows
    drawn,              \* how many entity ids were drawn so far
    ent,                \* the Entity object the client (or the handler) holds
    run,                \* the run in progress or just finished
    last,               \* the last operation called directly, with its outcome
    added,              \* added[e]: what entity e was added with
    reg,                \* reg[s]: where process s is in _register_component_type
    con,                \* how many connections were opened and never closed
    gcs                 \* the object store: its blobs and its last run

vars == <<classes, component_classes, db, drawn, ent, run, last, added, reg, con, gcs>>

\* ------------------------------------------------------------ sequences
RECURSIVE SelectIn(_, _)
\* The subsequence of seq whose elements are in S (a dict walked in order).
SelectIn(seq, S) ==
    IF seq = <<>> THEN <<>>
    ELSE IF Head(seq) \in S THEN <<Head(seq)>> \o SelectIn(Tail(seq), S)
         ELSE SelectIn(Tail(seq), S)

Range(seq) == {seq[i] : i \in DOMAIN seq}

\* Python's dict built from two parallel lists: keys[i] -> values[i].
Zip(keys, values) ==
    [k \in Range(keys) |-> values[CHOOSE i \in DOMAIN keys : keys[i] = k]]

\* ----------------------------------------------------------- reflection
\* EntityDB.get_instance_variables: the annotated constructor arguments.
get_instance_variables(s, T) == classes[s][T]

\* EntityDB.get_variables_of: the attributes whose name has no leading "_",
\* in dir() order.
get_variables_of(o) == SelectIn(FieldOrder, DOMAIN o \ {PRIMARY_KEY})

\* ------------------------------------------------------------- the entity
\* Entity.__init__: uid and db are annotated only, never assigned.  origin
\* is not an attribute: it records where the object comes from ("new": built
\* by the client, "added": passed to add_entity, "loaded": materialized).
Entity(components) ==
    [uid |-> Unset, db |-> Unset, components |-> components, unloaded |-> {},
     origin |-> "new"]

\* Entity.get_components: the loaded component objects, in dict order.
get_components(e) == SelectIn(TypeOrder, DOMAIN e.components)

\* Entity.get_component_types: the loaded types followed by the unloaded
\* names (strings, which have no __name__).
get_component_types(e) ==
    [loaded |-> SelectIn(TypeOrder, DOMAIN e.components),
     names  |-> SelectIn(TypeOrder, e.unloaded)]

\* ------------------------------------------------------------ the tables
EmptyDb ==
    [tables  |-> {},
     cols    |-> [T \in Types |-> {}],
     rows    |-> [T \in Types |-> {}],
     idxCols |-> {},
     idx     |-> <<>>]

\* does_column_exist: the pragma_table_info count is 1.
does_column_exist(d, table_name, column_name) ==
    IF table_name = ENTITY_TABLE THEN column_name \in d.idxCols
    ELSE table_name \in d.tables /\ column_name \in d.cols[table_name]

\* ALTER TABLE t ADD c: the rows already there read NULL in the new column.
AddColumn(row, c) == [k \in DOMAIN row \cup {c} |-> IF k \in DOMAIN row THEN row[k] ELSE Null]

RECURSIVE AddColumns(_, _)
AddColumns(row, cs) ==
    IF cs = {} THEN row
    ELSE LET c == CHOOSE x \in cs : TRUE IN AddColumns(AddColumn(row, c), cs \ {c})

\* ---------------------------------------------------------- registration
\* A class object: its __name__ and the fields its constructor declares.
Class(s, T) == [name |-> T, fields |-> get_instance_variables(s, T)]

\* CREATE TABLE IF NOT EXISTS name (_uid INTEGER PRIMARY KEY, _entity INTEGER)
CreateTableIfNotExists(d, name) == [d EXCEPT !.tables = @ \cup {name}]

\* A faulty widening that drops the table and creates it with the class's
\* fields as columns.
RecreateTableWithFields(d, cls) ==
    [d EXCEPT !.cols[cls.name] = cls.fields, !.rows[cls.name] = {}]

\* The loop over the class's variables: ALTER TABLE name ADD var for every
\* variable that has no column yet.
AddMissingFieldColumns(d, cls) ==
    LET new == {v \in cls.fields : ~does_column_exist(d, cls.name, v)}
    IN [d EXCEPT !.cols[cls.name] = @ \cup new,
                 !.rows[cls.name] = {AddColumns(r, new) : r \in @}]

\* ALTER TABLE _entities ADD name INTEGER, unless the column is there.
AddIndexColumn(d, name) ==
    IF does_column_exist(d, ENTITY_TABLE, name) THEN d
    ELSE [d EXCEPT !.idxCols = @ \cup {name},
                   !.idx = [i \in DOMAIN @ |-> AddColumn(@[i], name)]]

\* EntityDB_SQLite._register_component_type on the pair st = [db, cc] of the
\* database and the registries: a name already in the registry is skipped.
register_component_type(st, s, cls) ==
    IF cls.name \in DOMAIN st.cc[s] THEN st
    ELSE [st EXCEPT
            !.cc[s] = [n \in DOMAIN @ \cup {cls.name} |->
                         IF n = cls.name THEN cls.fields ELSE @[n]],
            !.db = AddIndexColumn(
                     AddMissingFieldColumns(
                       CreateTableIfNotExists(@, cls.name), cls), cls.name)]

\* A faulty _register_component_type that returns True on every call.
register_returns_true(st, s, cls) == TRUE

\* What _register_component_type returns: whether the name was new.
register_returns(st, s, cls) == cls.name \notin DOMAIN st.cc[s]

RECURSIVE register_all(_, _, _)
\* The loop "for component_type in ...: self._register_component_type(...)".
register_all(st, s, clss) ==
    IF clss = {} THEN st
    ELSE LET c == CHOOSE x \in clss : TRUE
         IN register_all(register_component_type(st, s, c), s, clss \ {c})

\* ------------------------------------------------------------- add_entity
\* random.randint(0, sys.maxsize) for a component: an id no row of the table
\* has (a collision has probability about 2^-63 and is left out).  The id is
\* also stored as component._uid, which no code reads, so the objects of the
\* model do not carry it.
NewRef(d, T) == Cardinality(d.rows[T]) + 1

\* The class of a component object: dataclass fields are its public attributes.
ClassOf(T, o) == [name |-> T, fields |-> Range(get_variables_of(o))]

\* The values of get_variables_of(o), in the order of its keys.
ValuesOf(o) == [i \in DOMAIN get_variables_of(o) |-> o[get_variables_of(o)[i]]]

\* INSERT INTO T (columns) VALUES (values): the columns not named read NULL.
InsertRow(columns, values, allCols) ==
    AddColumns(Zip(columns, values), allCols \ Range(columns))

\* Whether INSERT INTO T (columns) fails: no such table or no such column.
InsertFails(d, T, columns) ==
    \/ T \notin d.tables
    \/ Range(columns) \ ({PRIMARY_KEY, ENTITY_REFERENCE} \cup d.cols[T]) # {}

RECURSIVE AddComponents(_, _, _)
\* The loop "for component in entity.get_components()" of add_entity.
\* a = [st, e, uids, err]; every INSERT is committed on its own.
AddComponents(a, s, todo) ==
    IF todo = <<>> \/ a.err # "" THEN a
    ELSE LET T    == Head(todo)
             o    == a.e.components[T]
             st1  == register_component_type(a.st, s, ClassOf(T, o))
             ref  == NewRef(st1.db, T)
             columns == <<PRIMARY_KEY, ENTITY_REFERENCE>> \o get_variables_of(o)
             values  == <<ref, a.e.uid>> \o ValuesOf(o)
         IN IF InsertFails(st1.db, T, columns)
            THEN [a EXCEPT !.st = st1, !.err = "OperationalError"]
            ELSE AddComponents(
                   [a EXCEPT
                      !.st = [st1 EXCEPT !.db.rows[T] = @ \cup
                                {InsertRow(columns, values,
                                   {PRIMARY_KEY, ENTITY_REFERENCE} \cup st1.db.cols[T])}],
                      !.uids = Append(@, ref)],
                   s, Tail(todo))

\* The index record add_entity inserts: _uid and one column per component type.
IndexColumns(e) == <<PRIMARY_KEY>> \o get_component_types(e).loaded

\* A faulty index record that pairs the type names with the reference ids
\* in the opposite order.
IndexRowReversed(e, uids, idxCols) ==
    InsertRow(IndexColumns(e),
              <<e.uid>> \o [i \in DOMAIN uids |-> uids[Len(uids) + 1 - i]],
              {PRIMARY_KEY} \cup idxCols)

IndexRow(e, uids, idxCols) ==
    InsertRow(IndexColumns(e), <<e.uid>> \o uids, {PRIMARY_KEY} \cup idxCols)

\* EntityDB_SQLite.add_entity.  new_id is the id drawn: the ids are drawn
\* increasing, so that the index table, which SQLite reads in _uid order, is
\* in the order of the calls.  The result carries the entity as the call
\* leaves it.
add_entity(st, s, e, new_id) ==
    LET e1 == [e EXCEPT !.uid = new_id, !.db = s, !.origin = "added"]
        a  == AddComponents([st |-> st, e |-> e1, uids |-> <<>>, err |-> ""],
                            s, get_components(e1))
    IN IF a.err # "" THEN [st |-> a.st, e |-> a.e, err |-> a.err, ret |-> Null]
       ELSE IF get_component_types(a.e).names # <<>>
            \* component_type.__name__ of a str
            THEN [st |-> a.st, e |-> a.e, err |-> "AttributeError", ret |-> Null]
       ELSE [st  |-> [a.st EXCEPT !.db.idx =
                        Append(@, IndexRow(a.e, a.uids, a.st.db.idxCols))],
             e   |-> a.e, err |-> "", ret |-> new_id]

\* A faulty add_entity that writes the index record before the component
\* records, and whose process dies right after.
add_entity_crash_index_first(st, s, e, new_id, k) ==
    LET e1 == [e EXCEPT !.uid = new_id, !.db = s, !.origin = "added"]
        refs == [i \in DOMAIN get_components(e1) |->
                   NewRef(st.db, get_components(e1)[i])]
    IN [st EXCEPT !.db.idx = Append(@, IndexRow(e1, refs, st.db.idxCols))]

\* add_entity in a process that dies after k of its component records were
\* inserted: every INSERT was committed on its own, the index record was
\* not written.
add_entity_crash(st, s, e, new_id, k) ==
    LET e1 == [e EXCEPT !.uid = new_id, !.db = s, !.origin = "added"]
    IN AddComponents([st |-> st, e |-> e1, uids |-> <<>>, err |-> ""],
                     s, SubSeq(get_components(e1), 1, k)).st

\* ---------------------------------------------------------- update_entity
\* A faulty UPDATE that has lost its WHERE clause: every row is written.
UpdateRowsWithoutWhere(rows, uid, o) ==
    {[k \in DOMAIN r |-> IF k \in DOMAIN o THEN o[k] ELSE r[k]] : r \in rows}

\* UPDATE T SET v = ?, ... WHERE _entity = uid, on the rows of one table.
UpdateRows(rows, uid, o) ==
    {IF r[ENTITY_REFERENCE] = uid
     THEN [k \in DOMAIN r |-> IF k \in Range(get_variables_of(o)) THEN o[k] ELSE r[k]]
     ELSE r : r \in rows}

\* Whether the UPDATE statement of one component fails in SQLite: an empty
\* SET list is a syntax error, and the table and the columns must exist.
UpdateFails(d, T, o) ==
    \/ get_variables_of(o) = <<>>
    \/ T \notin d.tables
    \/ Range(get_variables_of(o)) \ d.cols[T] # {}

RECURSIVE UpdateComponents(_, _, _)
\* The loop "for component in entity.get_components()" of update_entity.
\* u = [db, err]; entity.uid is read when the statement is formatted.
UpdateComponents(u, e, todo) ==
    IF todo = <<>> \/ u.err # "" THEN u
    ELSE LET T == Head(todo)
             o == e.components[T]
         IN IF e.uid = Unset THEN [u EXCEPT !.err = "AttributeError"]
            ELSE IF UpdateFails(u.db, T, o) THEN [u EXCEPT !.err = "OperationalError"]
            ELSE UpdateComponents(
                   [u EXCEPT !.db.rows[T] = UpdateRows(@, e.uid, o)], e, Tail(todo))

\* EntityDB_SQLite.update_entity: one commit after the loop, so a statement
\* that raises leaves the database as it was.
update_entity(d, e) ==
    LET u == UpdateComponents([db |-> d, err |-> ""], e, get_components(e))
    IN IF u.err # "" THEN [db |-> d, err |-> u.err, ret |-> Null]
       ELSE [db |-> u.db, err |-> "", ret |-> TRUE]

\* ---------------------------------------------------------- delete_entity
\* EntityDB.delete_entity: the package's base class raises and the relational
\* backend does not override it; the legacy module returns False.
delete_entity(s, d, e) ==
    IF Impl(s) = "legacy" THEN [db |-> d, err |-> "", ret |-> FALSE]
    ELSE [db |-> d, err |-> "NotImplementedError", ret |-> Null]

\* -------------------------------------------------------- materialization
\* EntityDB._create_component_from_data: the storage-only columns are
\* stripped and the rest is passed to the constructor by name, which raises
\* TypeError unless the names are exactly the class's fields.
StripStorageColumns(component_data) ==
    [k \in DOMAIN component_data \ {PRIMARY_KEY, ENTITY_REFERENCE} |-> component_data[k]]

ConstructorFails(fields, component_values) == DOMAIN component_values # fields

\* The object the constructor builds: one attribute per field of the class.
create_component_from_data(fields, component_data) ==
    [k \in fields |-> StripStorageColumns(component_data)[k]]

\* A faulty SELECT that has lost its WHERE clause: every row of the table.
SelectWithoutWhere(d, T, key, value) ==
    IF T \notin d.tables THEN {} ELSE d.rows[T]

\* SELECT * FROM T WHERE key = value, then fetchone(): the rows that match.
SelectWhere(d, T, key, value) ==
    IF T \notin d.tables \/ value = Null THEN {}
    ELSE {r \in d.rows[T] : r[key] = value}

\* A faulty load_component that loads the component and forgets to take its
\* name off the unloaded names.
load_component_keeping_name(st, s, e, cls) ==
    LET st1  == register_component_type(st, s, cls)
        T    == cls.name
        hits == SelectWhere(st1.db, T, ENTITY_REFERENCE, e.uid)
    IN IF e.uid = Unset
       THEN [st |-> st1, e |-> e, err |-> "AttributeError", ret |-> Null]
       ELSE IF hits = {}
       THEN [st |-> st1, e |-> e, err |-> "", ret |-> FALSE]
       ELSE LET component_data == CHOOSE r \in hits : TRUE
            IN [st  |-> st1,
                e   |-> [e EXCEPT
                          !.components =
                             (T :> create_component_from_data(cls.fields, component_data)) @@ @],
                err |-> "", ret |-> TRUE]

\* EntityDB_SQLite.load_component.
load_component(st, s, e, cls) ==
    LET st1  == register_component_type(st, s, cls)
        T    == cls.name
        hits == SelectWhere(st1.db, T, ENTITY_REFERENCE, e.uid)
    IN IF e.uid = Unset
       THEN [st |-> st1, e |-> e, err |-> "AttributeError", ret |-> Null]
       ELSE IF hits = {}
       THEN [st |-> st1, e |-> e, err |-> "", ret |-> FALSE]
       ELSE LET component_data == CHOOSE r \in hits : TRUE
            IN IF ConstructorFails(cls.fields, StripStorageColumns(component_data))
               THEN [st |-> st1, e |-> e, err |-> "TypeError", ret |-> Null]
               ELSE [st  |-> st1,
                     e   |-> [e EXCEPT
                               !.components =
                                  (T :> create_component_from_data(cls.fields, component_data)) @@ @,
                               !.unloaded = @ \ {T}],
                     err |-> "", ret |-> TRUE]

RECURSIVE LoadColumns(_, _, _, _, _)
\* The loop "for comp_name in ids" of _load_entity_from_ids.
\* m = [e, err]; cc is the registry of the store that materializes.
LoadColumns(m, cc, d, ids, todo) ==
    IF todo = <<>> \/ m.err # "" THEN m
    ELSE LET comp_name == Head(todo)
             hits == SelectWhere(d, comp_name, PRIMARY_KEY, ids[comp_name])
         IN IF comp_name \in DOMAIN cc
            THEN IF hits = {} THEN LoadColumns(m, cc, d, ids, Tail(todo))
                 ELSE LET component_data == CHOOSE r \in hits : TRUE
                      IN IF ConstructorFails(cc[comp_name], StripStorageColumns(component_data))
                         THEN [m EXCEPT !.err = "TypeError"]
                         ELSE LoadColumns(
                                [m EXCEPT
                                   !.e.components =
                                      (comp_name :> create_component_from_data(cc[comp_name], component_data)) @@ @,
                                   !.e.uid = component_data[ENTITY_REFERENCE]],
                                cc, d, ids, Tail(todo))
            ELSE LoadColumns([m EXCEPT !.e.unloaded = @ \cup {comp_name}],
                             cc, d, ids, Tail(todo))

\* A faulty materialization that looks the classes up in the process (every
\* class the program defines) and not in the registry of the store.
load_entity_with_every_class(cc, d, ids) ==
    LoadColumns([e |-> [Entity(<<>>) EXCEPT !.origin = "loaded"], err |-> ""],
                [T \in Types |-> classes[Writer][T]], d, ids,
                SelectIn(TypeOrder, DOMAIN ids \ {PRIMARY_KEY}))

\* EntityDB_SQLite._load_entity_from_ids: ids is a row of the index table as
\* the query returned it; its _uid is popped and not used.
load_entity_from_ids(cc, d, ids) ==
    LoadColumns([e |-> [Entity(<<>>) EXCEPT !.origin = "loaded"], err |-> ""], cc, d, ids,
                SelectIn(TypeOrder, DOMAIN ids \ {PRIMARY_KEY}))

\* --------------------------------------------------------------- queries
\* A descriptor (SystemWrapper): the names of the required (include), the
\* optional and the excluded component types of a system's signature.
Descriptors ==
    {D \in [req : SUBSET Types, opt : SUBSET Types, exc : SUBSET Types] :
        /\ D.req \cap D.opt = {}
        /\ D.req \cap D.exc = {}
        /\ D.opt \cap D.exc = {}}

\* A faulty get_components_from_signature that leaves the required types out.
get_optional_components_from_signature(s, D) == {Class(s, T) : T \in D.opt}

\* SystemWrapper.get_components_from_signature: the required and the
\* optional types, not the excluded ones.
get_components_from_signature(s, D) == {Class(s, T) : T \in D.req \cup D.opt}

\* The conjuncts of the WHERE clause: "T IS NOT NULL" for every required
\* type, then "T IS NULL" for every excluded type.
where_clause(D) ==
    [i \in DOMAIN SelectIn(TypeOrder, D.req) |->
        [col |-> SelectIn(TypeOrder, D.req)[i], isnull |-> FALSE]]
    \o
    [i \in DOMAIN SelectIn(TypeOrder, D.exc) |->
        [col |-> SelectIn(TypeOrder, D.exc)[i], isnull |-> TRUE]]

\* SELECT ... FROM _entities WHERE (clause) fails: "WHERE ()" is a syntax
\* error, and a column that is not in the table is "no such column".
WhereFails(d, clause) ==
    \/ clause = <<>>
    \/ \E i \in DOMAIN clause : ~does_column_exist(d, ENTITY_TABLE, clause[i].col)

\* One row against the conjunction.
Satisfies(row, clause) ==
    \A i \in DOMAIN clause :
        IF clause[i].isnull THEN row[clause[i].col] = Null
        ELSE row[clause[i].col] # Null

RECURSIVE FetchAll(_, _)
\* SELECT * FROM _entities WHERE (clause); fetchall(): the rows, in order.
FetchAll(idx, clause) ==
    IF idx = <<>> THEN <<>>
    ELSE IF Satisfies(Head(idx), clause)
         THEN <<Head(idx)>> \o FetchAll(Tail(idx), clause)
         ELSE FetchAll(Tail(idx), clause)

\* SELECT COUNT(*) FROM _entities WHERE (clause).
CountAll(idx, clause) ==
    Cardinality({i \in DOMAIN idx : Satisfies(idx[i], clause)})

\* EntityDB_SQLite.count_matches.
count_matches(st, s, D) ==
    LET st1 == register_all(st, s, get_components_from_signature(s, D))
    IN IF WhereFails(st1.db, where_clause(D))
       THEN [st |-> st1, err |-> "OperationalError", ret |-> Null]
       ELSE [st |-> st1, err |-> "", ret |-> CountAll(st1.db.idx, where_clause(D))]

\* EntityDB_SQLite.run up to "found_entities = cur.fetchall()".
run_query(st, s, D) ==
    LET st1 == register_all(st, s, get_components_from_signature(s, D))
    IN IF WhereFails(st1.db, where_clause(D))
       THEN [st |-> st1, err |-> "OperationalError", found |-> <<>>]
       ELSE [st |-> st1, err |-> "", found |-> FetchAll(st1.db.idx, where_clause(D))]

\* ------------------------------------------------------------ the handler
\* SystemWrapper.run: entity._components[type] for every required type is a
\* KeyError when the type is not loaded.
InvokeFails(D, e) == D.req \ DOMAIN e.components # {}

\* The context slots of a signature: how many parameters are annotated with
\* EntityDB (edb), with Entity (entity) and with int (index).
NoContext == [edb |-> 0, entity |-> 0, index |-> 0]

Contexts ==
    {NoContext} \cup
    {[NoContext EXCEPT ![slot] = n] : slot \in {"edb", "entity", "index"}, n \in {1, 2}}

\* A faulty SystemWrapper.__init__ that accepts any signature.
WrapperAcceptsDuplicates(ctx) == FALSE

\* SystemWrapper.__init__: the second parameter of one context annotation
\* raises Exception; entity_input and index_input keep the name of the
\* parameter, edb_input is assigned the store object itself.
WrapperFails(ctx) == \E slot \in DOMAIN ctx : ctx[slot] > 1

SystemWrapper(D, ctx) ==
    [include_components  |-> D.req,
     optional_components |-> D.opt,
     exclude_components  |-> D.exc,
     entity_input |-> IF ctx.entity > 0 THEN "entity" ELSE "",
     edb_input    |-> IF ctx.edb > 0 THEN "<EntityDB object>" ELSE "",
     index_input  |-> IF ctx.index > 0 THEN "index" ELSE ""]

\* The names a system's context parameters can have.
ParameterNames == {"entity", "edb", "index"}

\* A faulty SystemWrapper.run that binds None to every optional parameter.
BindArgsWithoutOptional(w, e, eid, edb, index) ==
    [keys   |-> {w.entity_input, w.edb_input, w.index_input} \ {""},
     opt    |-> [T \in w.optional_components |-> {}],
     entity |-> IF w.entity_input # "" THEN {eid} ELSE {},
     edb    |-> IF w.edb_input # "" THEN {edb} ELSE {},
     index  |-> IF w.index_input # "" THEN {index} ELSE {}]

\* A faulty SystemWrapper.run that numbers the entities from one.
BindArgsCountingFromOne(w, e, eid, edb, index) ==
    [keys   |-> {w.entity_input, w.edb_input, w.index_input} \ {""},
     opt    |-> [T \in w.optional_components |->
                   IF T \in DOMAIN e.components THEN {e.components[T]} ELSE {}],
     entity |-> IF w.entity_input # "" THEN {eid} ELSE {},
     edb    |-> IF w.edb_input # "" THEN {edb} ELSE {},
     index  |-> IF w.index_input # "" THEN {index + 1} ELSE {}]

\* SystemWrapper.run, "args": the dict the system is called with.  keys are
\* the keys of the context entries; a value is a set with the value bound,
\* empty when nothing (or None) is bound.
BindArgs(w, e, eid, edb, index) ==
    [keys   |-> {w.entity_input, w.edb_input, w.index_input} \ {""},
     opt    |-> [T \in w.optional_components |->
                   IF T \in DOMAIN e.components THEN {e.components[T]} ELSE {}],
     entity |-> IF w.entity_input # "" THEN {eid} ELSE {},
     edb    |-> IF w.edb_input # "" THEN {edb} ELSE {},
     index  |-> IF w.index_input # "" THEN {index} ELSE {}]

NoArgs == [keys |-> {}, opt |-> <<>>, entity |-> {}, edb |-> {}, index |-> {}]

\* self.system(**args): a key that is not a string is a TypeError.
CallFails(args) == args.keys \ ParameterNames # {}

\* A faulty loop that looks for SAVE_ENTITY before DELETE_ENTITY.
AppliedCommandSaveFirst(cmds) ==
    IF SAVE_ENTITY \in cmds THEN "update_entity"
    ELSE IF DELETE_ENTITY \in cmds THEN "delete_entity"
    ELSE ""

\* The backend operation the loop applies for the commands of one pass.
AppliedCommand(cmds) ==
    IF DELETE_ENTITY \in cmds THEN "delete_entity"
    ELSE IF SAVE_ENTITY \in cmds THEN "update_entity"
    ELSE ""

\* "if SystemCommands.BREAK in commands: break"
Breaks(cmds) == BREAK \in cmds

\* The systems of the client: what a system does with the entity it is
\* given (it may add one to the field n of a Counter) and the commands it
\* returns.  increment_system of src/test.py is [inc TRUE, cmds {SAVE_ENTITY}].
Handlers ==
    {[inc |-> FALSE, cmds |-> {}],
     [inc |-> TRUE,  cmds |-> {SAVE_ENTITY}],
     [inc |-> FALSE, cmds |-> {DELETE_ENTITY}],
     [inc |-> FALSE, cmds |-> {BREAK}]}

\* Systems that return a list of several commands.
ListHandlers ==
    {[inc |-> TRUE,  cmds |-> {DELETE_ENTITY, SAVE_ENTITY}],
     [inc |-> TRUE,  cmds |-> {SAVE_ENTITY, BREAK}],
     [inc |-> FALSE, cmds |-> {DELETE_ENTITY, BREAK}]}

CanIncrement(e) ==
    /\ "Counter" \in DOMAIN e.components
    /\ "n" \in DOMAIN e.components["Counter"]
    /\ e.components["Counter"]["n"] \in 0..(MaxVal - 1)

\* The entity after the system's body ran.
HandlerBody(h, e) ==
    IF h.inc /\ CanIncrement(e)
    THEN [e EXCEPT !.components["Counter"]["n"] = @ + 1]
    ELSE e

\* -------------------------------------------------------- the object store
\* EntityDB_GCS keeps one empty blob cmp/<Type>/<eid>-<cid> per component:
\* g.cmp holds the pair <<Type, eid>> of each of them.  The store object is
\* not one of the stores of the database file.
GcsStore == Cardinality(Stores) + 1

\* EntityDB_GCS.add_entity, for the blobs a query lists.
gcs_add_entity(g, e, new_eid) ==
    [g EXCEPT !.cmp = @ \cup {<<T, new_eid>> : T \in Range(get_components(e))},
              !.drawn = new_eid]

\* _search_blobs("cmp/<T>/") and the loop over it: found_components.
found_components(g, T) == {b[2] : b \in {x \in g.cmp : x[1] = T}}

\* matched_eids before the loop of run.
None == [none |-> TRUE, eids |-> {}]

RECURSIVE MatchRequired(_, _, _)
\* The loop "for component in system.include_components" of
\* EntityDB_GCS.run, over the required types in the order of the signature.
\* "if matched_eids:" is false for None and for the empty set.
MatchRequired(g, req, matched_eids) ==
    IF req = <<>> THEN matched_eids
    ELSE LET found == found_components(g, Head(req))
         IN MatchRequired(g, Tail(req),
                IF ~matched_eids.none /\ matched_eids.eids # {}
                THEN [none |-> FALSE, eids |-> matched_eids.eids \cap found]
                ELSE [none |-> FALSE, eids |-> found])

\* EntityDB_GCS.run: the excluded and the optional types are walked with
\* "pass"; iterating None raises TypeError; _run_on_entities reaches
\* _load_entity_from_cids for the first matched entity, which raises.
gcs_run(g, D) ==
    LET m == MatchRequired(g, D.req, None)
    IN [ran |-> TRUE, req |-> D.req, opt |-> D.opt, exc |-> D.exc,
        matched |-> m.eids,
        err |-> IF m.none THEN "TypeError"
                ELSE IF m.eids # {} THEN "NotImplementedError"
                ELSE ""]

\* ------------------------------------------------------------ connections
\* How many connections a call of op that ends with err leaves without
\* close().  Every operation calls con.close() as the last statement of its
\* straight path, outside any try/finally: a statement that raises between
\* _connect_to_db() and con.close() leaves the connection to the runtime,
\* and _create_db never calls close() at all.  run and count_matches close
\* right after the query, load_component right after the SELECT.
Unclosed(op, err) ==
    IF op = "_create_db" THEN 1
    ELSE IF err = "" THEN 0
    ELSE IF op \in {"add_entity", "update_entity", "_load_entity_from_ids"} THEN 1
    ELSE IF op = "load_component" /\ err \in {"AttributeError", "OperationalError"} THEN 1
    ELSE IF op \in {"run", "count_matches", "register"} /\ err = "OperationalError" THEN 1
    ELSE 0

\* ------------------------------------------------------------- the state
NoOp == [op |-> "", s |-> 0, T |-> "", err |-> "", ret |-> "", num |-> 0]

Outcome(op, s, T, err, ret, num) ==
    [op |-> op, s |-> s, T |-> T, err |-> err,
     ret |-> IF err # "" THEN "raised" ELSE ret,
     num |-> IF err # "" THEN 0 ELSE num]

Bool(b) == IF b THEN "True" ELSE "False"

NoHandler == [inc |-> FALSE, cmds |-> {}]

IdleRun ==
    [pc |-> "idle", s |-> 0, D |-> [req |-> {}, opt |-> {}, exc |-> {}],
     h |-> NoHandler, found |-> <<>>, index |-> 0, eid |-> 0, passed |-> <<>>,
     invoked |-> <<>>, expect |-> {}, count |-> 0, err |-> "",
     ctx |-> NoContext, args |-> NoArgs, applied |-> ""]

\* The public attributes of the loaded components of an entity.
FieldsOf(components) ==
    [T \in DOMAIN components |->
        [k \in Range(get_variables_of(components[T])) |-> components[T][k]]]

\* added[e]: the fields entity e was added with, and whether a save of e
\* was asked for since.
Added(components) == [fields |-> FieldsOf(components), touched |-> FALSE]

\* The component objects a client can construct in process s.
Objects(s, T) == [get_instance_variables(s, T) -> Val]

ComponentDicts(s) ==
    UNION {{f \in [S -> UNION {Objects(s, T) : T \in S}] :
               \A T \in S : f[T] \in Objects(s, T)} : S \in SUBSET Types}

\* The processes that call _register_component_type themselves, and a
\* process that is not inside the call.
Registrars == {Writer, Reader}

NotRegistering == [pc |-> "idle", T |-> "", todo |-> <<>>]

Quiet == run.pc \in {"idle", "done", "error"}

\* The connections left open after n more were left unclosed.
StillOpen(n) == IF con + n > MaxOpen THEN MaxOpen ELSE con + n

\* The object store before any blob is written, and before any run.
NoGcsRun == [ran |-> FALSE, req |-> <<>>, opt |-> {}, exc |-> {},
             matched |-> {}, err |-> ""]

EmptyGcs == [cmp |-> {}, drawn |-> 0, run |-> NoGcsRun]

Init ==
    /\ classes = [s \in Stores |-> [T \in Types |-> IF T = "Counter" THEN {"n"} ELSE {}]]
    /\ component_classes = [s \in Stores |-> <<>>]
    /\ db = EmptyDb
    /\ drawn = 0
    /\ ent = Entity(<<>>)
    /\ run = IdleRun
    /\ last = NoOp
    /\ added = <<>>
    /\ reg = [s \in Registrars |-> NotRegistering]
    /\ con = Unclosed("_create_db", "")
    /\ gcs = EmptyGcs

\* ----------------------------------------------------------- the actions
\* Entity(components): the client builds an entity in memory.
NewEntity(s, components) ==
    /\ Quiet
    /\ ent' = Entity(components)
    /\ run' = IdleRun
    /\ last' = NoOp
    /\ UNCHANGED <<con, gcs, reg, classes, component_classes, db, drawn, added>>

\* The client assigns a field of a loaded component.
SetField(T, f, v) ==
    /\ Quiet
    /\ T \in DOMAIN ent.components
    /\ f \in DOMAIN ent.components[T]
    /\ ent.components[T][f] # v
    /\ ent' = [ent EXCEPT !.components[T][f] = v]
    /\ run' = IdleRun
    /\ last' = NoOp
    /\ UNCHANGED <<con, gcs, reg, classes, component_classes, db, drawn, added>>

\* db.add_entity(entity)
AddEntity(s) ==
    /\ Quiet
    /\ drawn < MaxEntities
    /\ LET r == add_entity([db |-> db, cc |-> component_classes], s, ent, drawn + 1)
       IN /\ db' = r.st.db
          /\ component_classes' = r.st.cc
          /\ ent' = r.e
          /\ last' = Outcome("add_entity", s, "", r.err, "int", drawn + 1)
          /\ added' = IF r.err = ""
                      THEN added @@ ((drawn + 1) :> Added(ent.components))
                      ELSE added
    /\ drawn' = drawn + 1
    /\ run' = IdleRun
    /\ con' = StillOpen(Unclosed("add_entity", last'.err))
    /\ UNCHANGED <<gcs, reg, classes>>

\* A save was asked for the entity with this uid.
AddedAfterSave(uid) ==
    IF uid \in DOMAIN added THEN [added EXCEPT ![uid].touched = TRUE] ELSE added

\* db.update_entity(entity)
UpdateEntity(s) ==
    /\ Quiet
    /\ LET r == update_entity(db, ent)
       IN /\ db' = r.db
          /\ last' = Outcome("update_entity", s, "", r.err, "True", 0)
    /\ added' = AddedAfterSave(ent.uid)
    /\ run' = IdleRun
    /\ con' = StillOpen(Unclosed("update_entity", last'.err))
    /\ UNCHANGED <<gcs, reg, classes, component_classes, drawn, ent>>

\* db.delete_entity(entity)
DeleteEntity(s) ==
    /\ Quiet
    /\ LET r == delete_entity(s, db, ent)
       IN /\ db' = r.db
          /\ last' = Outcome("delete_entity", s, "", r.err, "False", 0)
    /\ run' = IdleRun
    /\ UNCHANGED <<con, gcs, reg, classes, component_classes, drawn, ent, added>>

\* db.load_component(entity, T)
LoadComponent(s, T) ==
    /\ Quiet
    /\ LET r == load_component([db |-> db, cc |-> component_classes], s, ent, Class(s, T))
       IN /\ db' = r.st.db
          /\ component_classes' = r.st.cc
          /\ ent' = r.e
          /\ last' = Outcome("load_component", s, T, r.err,
                             IF r.err = "" THEN Bool(r.ret) ELSE "", 0)
    /\ run' = IdleRun
    /\ con' = StillOpen(Unclosed("load_component", last'.err))
    /\ UNCHANGED <<gcs, reg, classes, drawn, added>>

\* entity.get(T): Entity.get loads an unloaded component through entity.db.
Get(T) ==
    /\ Quiet
    /\ IF T \in ent.unloaded
       THEN IF ent.db = Unset
            THEN /\ last' = Outcome("get", 0, T, "AttributeError", "", 0)
                 /\ UNCHANGED <<db, component_classes, ent>>
            ELSE LET r == load_component([db |-> db, cc |-> component_classes],
                                         ent.db, ent, Class(ent.db, T))
                 IN /\ db' = r.st.db
                    /\ component_classes' = r.st.cc
                    /\ ent' = r.e
                    /\ last' = Outcome("get", ent.db, T, r.err,
                                       IF T \in DOMAIN r.e.components
                                       THEN "component" ELSE "None", 0)
       ELSE /\ last' = Outcome("get", 0, T, "",
                               IF T \in DOMAIN ent.components
                               THEN "component" ELSE "None", 0)
            /\ UNCHANGED <<db, component_classes, ent>>
    /\ run' = IdleRun
    /\ UNCHANGED <<con, gcs, reg, classes, drawn, added>>

\* db.count_matches(system)
CountMatches(s, D) ==
    /\ Quiet
    /\ LET r == count_matches([db |-> db, cc |-> component_classes], s, D)
       IN /\ db' = r.st.db
          /\ component_classes' = r.st.cc
          /\ last' = Outcome("count_matches", s, "", r.err, "int",
                             IF r.err = "" THEN r.ret ELSE 0)
    /\ run' = IdleRun
    /\ con' = StillOpen(Unclosed("count_matches", last'.err))
    /\ UNCHANGED <<gcs, reg, classes, drawn, ent, added>>

\* An operation the object-store backend (EntityDB_GCS) hands to the base
\* class, which raises NotImplementedError; _load_entity_from_cids raises it
\* itself, and delete_entity first reads entity.uid.  The relational
\* database is not involved.
GcsOperations ==
    {"update_entity", "delete_entity", "count_matches", "load_component",
     "_load_entity_from_cids"}

GcsUnimplemented(op) ==
    /\ Quiet
    /\ last' = Outcome("gcs." \o op, 0, "",
                       IF op = "delete_entity" /\ ent.uid = Unset
                       THEN "AttributeError" ELSE "NotImplementedError", "", 0)
    /\ run' = IdleRun
    /\ UNCHANGED <<con, gcs, reg, classes, component_classes, db, drawn, ent, added>>

\* The entities a descriptor is meant to match: the index record holds every
\* required type and none of the excluded types.
Holds(row, T) == T \in DOMAIN row /\ row[T] # Null

Matching(idx, D) ==
    {idx[i][PRIMARY_KEY] : i \in
        {j \in DOMAIN idx : /\ \A T \in D.req : Holds(idx[j], T)
                            /\ \A T \in D.exc : ~Holds(idx[j], T)}}

\* db.run(system), up to the query: the wrapper is built, the types of the
\* signature are registered and the index table is queried.  The client
\* keeps no entity of its own while a system runs.  What the body of the
\* system does shows when it is first called (RunInvoke).  ctx are the
\* context slots of the signature: SystemWrapper(self, system_func) is the
\* first statement of run and may raise.
RunStart(s, D, ctx) ==
    /\ Quiet
    /\ IF WrapperFails(ctx)
       THEN /\ run' = [IdleRun EXCEPT !.pc = "error", !.s = s, !.D = D, !.ctx = ctx,
                                      !.err = "Exception",
                                      !.expect = Matching(db.idx, D), !.count = Null]
            /\ UNCHANGED <<db, component_classes>>
       ELSE LET q == run_query([db |-> db, cc |-> component_classes], s, D)
                c == count_matches([db |-> db, cc |-> component_classes], s, D)
            IN /\ db' = q.st.db
               /\ component_classes' = q.st.cc
               /\ run' = [IdleRun EXCEPT
                            !.pc = IF q.err # "" THEN "error"
                                   ELSE IF q.found = <<>> THEN "done" ELSE "loop",
                            !.s = s, !.D = D, !.ctx = ctx,
                            !.found = q.found, !.err = q.err,
                            !.expect = Matching(db.idx, D),
                            !.count = IF c.err = "" THEN c.ret ELSE Null]
    /\ ent' = Entity(<<>>)
    /\ last' = NoOp
    /\ con' = StillOpen(Unclosed("run", run'.err))
    /\ UNCHANGED <<gcs, reg, classes, drawn, added>>

\* One pass of the loop up to "commands = system.run(entity, index)": the
\* row is materialized and the system h is called with the entity.  h is the
\* system the run was started with; a system that changes a Counter has it
\* in its signature.
RunInvoke(h) ==
    /\ run.pc = "loop"
    /\ IF run.invoked = <<>> THEN h.inc => "Counter" \in run.D.req ELSE h = run.h
    /\ LET ids == run.found[run.index + 1]
           m   == load_entity_from_ids(component_classes[run.s], db, ids)
       IN IF m.err # ""
          THEN /\ run' = [run EXCEPT !.pc = "error", !.err = m.err]
               /\ ent' = ent
               /\ con' = StillOpen(Unclosed("_load_entity_from_ids", m.err))
          ELSE IF InvokeFails(run.D, m.e)
          THEN /\ run' = [run EXCEPT !.pc = "error", !.err = "KeyError"]
               /\ ent' = ent
               /\ con' = con
          ELSE LET args == BindArgs(SystemWrapper(run.D, run.ctx), m.e,
                                    ids[PRIMARY_KEY], run.s, run.index)
               IN IF CallFails(args)
                  THEN /\ run' = [run EXCEPT !.pc = "error", !.err = "TypeError"]
                       /\ ent' = ent
                       /\ con' = con
                  ELSE /\ ent' = HandlerBody(h, m.e)
                       /\ con' = con
                       /\ run' = [run EXCEPT !.pc = "apply", !.eid = ids[PRIMARY_KEY],
                                             !.h = h,
                                             !.passed = m.e.components,
                                             !.args = args,
                                             !.applied = "",
                                             !.invoked = Append(@, ids[PRIMARY_KEY])]
    /\ UNCHANGED <<gcs, reg, classes, component_classes, db, drawn, last, added>>

\* The rest of the pass: the commands are applied, then the loop goes on,
\* breaks or ends.
RunApply ==
    /\ run.pc = "apply"
    /\ LET op == AppliedCommand(run.h.cmds)
           r  == IF op = "delete_entity" THEN delete_entity(run.s, db, ent)
                 ELSE IF op = "update_entity" THEN update_entity(db, ent)
                 ELSE [db |-> db, err |-> "", ret |-> Null]
       IN /\ db' = r.db
          /\ run' = [run EXCEPT
                       !.pc = IF r.err # "" THEN "error"
                              ELSE IF Breaks(run.h.cmds) THEN "done"
                              ELSE IF run.index + 1 = Len(run.found) THEN "done"
                              ELSE "loop",
                       !.err = r.err,
                       !.passed = <<>>,
                       !.args = NoArgs,
                       !.applied = op,
                       !.index = IF r.err # "" \/ Breaks(run.h.cmds) THEN @ ELSE @ + 1]
          /\ added' = IF op = "update_entity" THEN AddedAfterSave(run.eid) ELSE added
    /\ con' = StillOpen(Unclosed(run'.applied, run'.err))
    /\ UNCHANGED <<gcs, reg, classes, component_classes, drawn, ent, last>>

\* The operations of the relational backend, called on the stores of S.
NextOn(S) ==
    \/ \E s \in S : \E c \in ComponentDicts(s) : NewEntity(s, c)
    \/ \E T \in Types, f \in FieldNames, v \in Val : SetField(T, f, v)
    \/ \E s \in S : AddEntity(s)
    \/ \E s \in S : UpdateEntity(s)
    \/ \E s \in S : DeleteEntity(s)
    \/ \E s \in S, T \in Types : LoadComponent(s, T)
    \/ \E T \in Types : Get(T)
    \/ \E s \in S, D \in Descriptors : CountMatches(s, D)
    \/ \E s \in S, D \in Descriptors : RunStart(s, D, NoContext)
    \/ \E h \in Handlers : RunInvoke(h)
    \/ RunApply

\* One store instance of the package's relational backend.
Next == NextOn({Writer})

Spec == Init /\ [][Next]_vars

\* Two store instances of the package's relational backend on one database
\* file, each with a registry of its own: a writer adds entities, a reader
\* runs systems over them, loads components, updates and deletes.  A client may also
\* hold the single-file module src/entitydb.py or the object-store backend.
NextTwo ==
    \/ \E c \in ComponentDicts(Writer) : NewEntity(Writer, c)
    \/ AddEntity(Writer)
    \/ UpdateEntity(Reader)
    \/ \E s \in {Reader, Legacy} : DeleteEntity(s)
    \/ \E T \in Types : LoadComponent(Reader, T)
    \/ \E T \in Types : Get(T)
    \/ \E D \in Descriptors : RunStart(Reader, D, NoContext)
    \/ \E h \in Handlers : RunInvoke(h)
    \/ RunApply
    \/ \E op \in GcsOperations : GcsUnimplemented(op)

SpecTwo == Init /\ [][NextTwo]_vars

\* ---------------------------------------------------------- registration
\* A later version of the program of process s declares Counter with one
\* more field.
Redefine(s) ==
    /\ Quiet
    /\ classes[s]["Counter"] = {"n"}
    /\ classes' = [classes EXCEPT ![s]["Counter"] = {"n", "m"}]
    /\ last' = NoOp
    /\ run' = IdleRun
    /\ UNCHANGED <<con, gcs, reg, component_classes, db, drawn, ent, added>>

\* db._register_component_type(T) called by the client, the whole call.
Register(s, T) ==
    /\ Quiet
    /\ LET st == [db |-> db, cc |-> component_classes]
           r  == register_component_type(st, s, Class(s, T))
       IN /\ db' = r.db
          /\ component_classes' = r.cc
          /\ last' = Outcome("register", s, T, "",
                             Bool(register_returns(st, s, Class(s, T))), 0)
    /\ run' = IdleRun
    /\ UNCHANGED <<con, gcs, reg, classes, drawn, ent, added>>

NextReg ==
    \/ \E c \in ComponentDicts(Writer) : NewEntity(Writer, c)
    \/ AddEntity(Writer)
    \/ \E s \in Registrars : Redefine(s)
    \/ \E s \in Registrars, T \in Types : Register(s, T)

SpecReg == Init /\ [][NextReg]_vars

\* The same call statement by statement, for two processes that share the
\* database file.  Every statement is committed as it is executed: no
\* transaction is open while the schema statements run.
\* "if component_name not in self.component_classes", the registry entry.
RegisterCall(s, T) ==
    /\ reg[s].pc = "idle"
    /\ IF T \in DOMAIN component_classes[s]
       THEN /\ last' = Outcome("register", s, T, "", "False", 0)
            /\ UNCHANGED <<reg, component_classes>>
       ELSE /\ component_classes' =
                 [component_classes EXCEPT
                    ![s] = [n \in DOMAIN @ \cup {T} |->
                              IF n = T THEN classes[s][T] ELSE @[n]]]
            /\ reg' = [reg EXCEPT
                         ![s] = [pc |-> "create", T |-> T,
                                 todo |-> SelectIn(FieldOrder,
                                                   get_instance_variables(s, T))]]
            /\ last' = NoOp
    /\ UNCHANGED <<con, gcs, classes, db, drawn, ent, run, added>>

\* CREATE TABLE IF NOT EXISTS
RegisterCreateTable(s) ==
    /\ reg[s].pc = "create"
    /\ db' = CreateTableIfNotExists(db, reg[s].T)
    /\ reg' = [reg EXCEPT ![s].pc = "check"]
    /\ UNCHANGED <<con, gcs, classes, component_classes, drawn, ent, run, last, added>>

\* "for var_name in variables: if not does_column_exist(...)"
RegisterCheckField(s) ==
    /\ reg[s].pc = "check"
    /\ reg' = IF reg[s].todo = <<>> THEN [reg EXCEPT ![s].pc = "check_index"]
              ELSE IF does_column_exist(db, reg[s].T, Head(reg[s].todo))
              THEN [reg EXCEPT ![s].todo = Tail(@)]
              ELSE [reg EXCEPT ![s].pc = "alter"]
    /\ UNCHANGED <<con, gcs, classes, component_classes, db, drawn, ent, run, last, added>>

\* ALTER TABLE T ADD var_name: "duplicate column name" if the column is there.
RegisterAddField(s) ==
    /\ reg[s].pc = "alter"
    /\ LET T == reg[s].T
           v == Head(reg[s].todo)
       IN IF does_column_exist(db, T, v)
          THEN /\ reg' = [reg EXCEPT ![s] = NotRegistering]
               /\ last' = Outcome("register", s, T, "OperationalError", "", 0)
               /\ db' = db
               /\ con' = StillOpen(Unclosed("register", "OperationalError"))
          ELSE /\ reg' = [reg EXCEPT ![s].pc = "check", ![s].todo = Tail(@)]
               /\ last' = last
               /\ con' = con
               /\ db' = AddMissingFieldColumns(db, [name |-> T, fields |-> {v}])
    /\ UNCHANGED <<gcs, classes, component_classes, drawn, ent, run, added>>

\* "if not does_column_exist(cur, ENTITY_TABLE, component_name)"
RegisterCheckIndex(s) ==
    /\ reg[s].pc = "check_index"
    /\ reg' = IF does_column_exist(db, ENTITY_TABLE, reg[s].T)
              THEN [reg EXCEPT ![s].pc = "commit"]
              ELSE [reg EXCEPT ![s].pc = "alter_index"]
    /\ UNCHANGED <<con, gcs, classes, component_classes, db, drawn, ent, run, last, added>>

\* ALTER TABLE _entities ADD T INTEGER
RegisterAddIndex(s) ==
    /\ reg[s].pc = "alter_index"
    /\ IF does_column_exist(db, ENTITY_TABLE, reg[s].T)
       THEN /\ reg' = [reg EXCEPT ![s] = NotRegistering]
            /\ last' = Outcome("register", s, reg[s].T, "OperationalError", "", 0)
            /\ db' = db
            /\ con' = StillOpen(Unclosed("register", "OperationalError"))
       ELSE /\ reg' = [reg EXCEPT ![s].pc = "commit"]
            /\ last' = last
            /\ con' = con
            /\ db' = AddIndexColumn(db, reg[s].T)
    /\ UNCHANGED <<gcs, classes, component_classes, drawn, ent, run, added>>

\* con.commit(); con.close(); return True
RegisterReturn(s) ==
    /\ reg[s].pc = "commit"
    /\ reg' = [reg EXCEPT ![s] = NotRegistering]
    /\ last' = Outcome("register", s, reg[s].T, "", "True", 0)
    /\ UNCHANGED <<con, gcs, classes, component_classes, db, drawn, ent, run, added>>

NextRace ==
    \/ \E s \in Registrars, T \in Types : RegisterCall(s, T)
    \/ \E s \in Registrars : RegisterCreateTable(s)
    \/ \E s \in Registrars : RegisterCheckField(s)
    \/ \E s \in Registrars : RegisterAddField(s)
    \/ \E s \in Registrars : RegisterCheckIndex(s)
    \/ \E s \in Registrars : RegisterAddIndex(s)
    \/ \E s \in Registrars : RegisterReturn(s)

SpecRace == Init /\ [][NextRace]_vars

\* The descriptors with one required type and no excluded type.
CtxDescriptors == {D \in Descriptors : Cardinality(D.req) = 1 /\ D.exc = {}}

\* The descriptor of "def f(c: Counter)".
RequiresCounter == [req |-> {"Counter"}, opt |-> {}, exc |-> {}]

\* ------------------------------------------------------------ a crash
\* The process of store s dies inside add_entity after k component records.
\* The store object, its registry and the entity object are gone; a new
\* store object starts with an empty registry (EntityDB.__init__).
AddEntityCrash(s, k) ==
    /\ Quiet
    /\ drawn < MaxEntities
    /\ k <= Len(get_components(ent))
    /\ LET st == add_entity_crash([db |-> db, cc |-> component_classes], s, ent,
                                  drawn + 1, k)
       IN /\ db' = st.db
          /\ component_classes' = [st.cc EXCEPT ![s] = <<>>]
    /\ ent' = Entity(<<>>)
    /\ last' = Outcome("add_entity", s, "", "crashed", "", 0)
    /\ drawn' = drawn + 1
    /\ run' = IdleRun
    /\ UNCHANGED <<con, gcs, reg, classes, added>>

\* add_entity that succeeds, fails or is cut short by a crash: a writer
\* whose class Counter may gain a field after it was registered, and a
\* reader whose runs hand out entities with unloaded names.
NextCrash ==
    \/ \E c \in ComponentDicts(Writer) : NewEntity(Writer, c)
    \/ AddEntity(Writer)
    \/ \E k \in 0..Cardinality(Types) : AddEntityCrash(Writer, k)
    \/ Redefine(Writer)
    \/ run.pc = "idle" /\ RunStart(Reader, RequiresCounter, NoContext)
    \/ RunInvoke(NoHandler)
    \/ RunApply

SpecCrash == Init /\ [][NextCrash]_vars

\* -------------------------------------------------- the object-store run
\* Signatures of the systems run on the object store: the required types
\* in the order of the parameters, then optional and excluded types.
GcsDescriptors ==
    {D \in [req : UNION {[1..n -> Types] : n \in 0..Cardinality(Types)},
            opt : SUBSET Types, exc : SUBSET Types] :
        /\ \A i, j \in DOMAIN D.req : D.req[i] = D.req[j] => i = j
        /\ Range(D.req) \cap D.opt = {}
        /\ Range(D.req) \cap D.exc = {}
        /\ D.opt \cap D.exc = {}}

\* gcs.add_entity(entity)
GcsAddEntity ==
    /\ Quiet
    /\ gcs.drawn < MaxEntities
    /\ gcs' = [gcs_add_entity(gcs, ent, gcs.drawn + 1) EXCEPT !.run = NoGcsRun]
    /\ ent' = [ent EXCEPT !.uid = gcs.drawn + 1, !.db = GcsStore, !.origin = "added"]
    /\ last' = Outcome("gcs.add_entity", 0, "", "", "str", gcs.drawn + 1)
    /\ run' = IdleRun
    /\ UNCHANGED <<con, reg, classes, component_classes, db, drawn, added>>

\* gcs.run(system)
GcsRun(D) ==
    /\ Quiet
    /\ gcs' = [gcs EXCEPT !.run = gcs_run(gcs, D)]
    /\ last' = Outcome("gcs.run", 0, "", gcs'.run.err, "", 0)
    /\ run' = IdleRun
    /\ UNCHANGED <<con, reg, classes, component_classes, db, drawn, ent, added>>

NextGcs ==
    \/ \E c \in ComponentDicts(Writer) : NewEntity(Writer, c)
    \/ GcsAddEntity
    \/ \E D \in GcsDescriptors : GcsRun(D)

SpecGcs == Init /\ [][NextGcs]_vars

\* ------------------------------------------------- writes during a run
\* Another process adds an entity while the loop of run is between two
\* statements: found_entities was fetched before (fetchall, line 88).
ConcurrentAdd(s, c) ==
    /\ ~Quiet
    /\ drawn < MaxEntities
    /\ LET r == add_entity([db |-> db, cc |-> component_classes], s, Entity(c),
                           drawn + 1)
       IN /\ db' = r.st.db
          /\ component_classes' = r.st.cc
          /\ added' = IF r.err = "" THEN added @@ ((drawn + 1) :> Added(c)) ELSE added
          /\ con' = StillOpen(Unclosed("add_entity", r.err))
    /\ drawn' = drawn + 1
    /\ UNCHANGED <<gcs, reg, classes, ent, run, last>>

\* Another process saves the Counter of an entity it added, while the loop
\* of run is between two statements.
ConcurrentSave(s, uid, c) ==
    /\ ~Quiet
    /\ DOMAIN c = {"Counter"}
    /\ \E i \in DOMAIN db.idx :
          db.idx[i][PRIMARY_KEY] = uid /\ Holds(db.idx[i], "Counter")
    /\ LET e == [Entity(c) EXCEPT !.uid = uid, !.db = s, !.origin = "added"]
           r == update_entity(db, e)
       IN /\ db' = r.db
          /\ con' = StillOpen(Unclosed("update_entity", r.err))
    /\ added' = AddedAfterSave(uid)
    /\ UNCHANGED <<gcs, reg, classes, component_classes, drawn, ent, run, last>>

\* A reader runs systems over a required Counter while a writer goes on
\* adding entities and saving records.
NextSnap ==
    \/ \E c \in ComponentDicts(Writer) : NewEntity(Writer, c)
    \/ AddEntity(Writer)
    \/ run.pc = "idle" /\ RunStart(Reader, RequiresCounter, NoContext)
    \/ \E h \in Handlers : RunInvoke(h)
    \/ RunApply
    \/ \E c \in ComponentDicts(Writer) : ConcurrentAdd(Writer, c)
    \/ \E uid \in 1..MaxEntities, c \in ComponentDicts(Writer) :
          ConcurrentSave(Writer, uid, c)

SpecSnap == Init /\ [][NextSnap]_vars

\* ------------------------------------------------------ connection release
\* The runtime finalizes the connection objects no frame refers to any
\* more, which closes them.  Nothing in the code orders this before or
\* after the next operation.
Collect ==
    /\ con > 0
    /\ con' = 0
    /\ UNCHANGED <<classes, component_classes, db, drawn, ent, run, last, added,
                   reg, gcs>>

\* Systems over a required Counter, with or without an excluded A.
ConDescriptors == {D \in Descriptors : D.req = {"Counter"} /\ D.opt = {}}

\* The operations of one store that open a connection, with the finalizer
\* running at any moment.
NextCon ==
    \/ \E c \in ComponentDicts(Writer) : NewEntity(Writer, c)
    \/ AddEntity(Writer)
    \/ UpdateEntity(Writer)
    \/ \E T \in Types : LoadComponent(Writer, T)
    \/ \E D \in ConDescriptors : CountMatches(Writer, D)
    \/ \E D \in ConDescriptors : run.pc = "idle" /\ RunStart(Writer, D, NoContext)
    \/ RunInvoke(NoHandler)
    \/ RunApply
    \/ Collect

SpecCon == Init /\ [][NextCon]_vars

\* Systems with context parameters and with lists of commands, run by the
\* package's relational backend and by the single-file module over the
\* entities a writer adds.  The client builds an entity between two runs,
\* which changes nothing in the database.
NextCtx ==
    \/ \E c \in ComponentDicts(Writer) : NewEntity(Writer, c)
    \/ AddEntity(Writer)
    \/ \E s \in {Writer, Legacy}, D \in CtxDescriptors, ctx \in Contexts :
          run.pc = "idle" /\ RunStart(s, D, ctx)
    \/ \E h \in Handlers \cup ListHandlers : RunInvoke(h)
    \/ RunApply

SpecCtx == Init /\ [][NextCtx]_vars

\* ============================================================== the claims
\* What the index table and the component tables hold for one entity.
IndexRowOf(uid) == db.idx[CHOOSE i \in DOMAIN db.idx : db.idx[i][PRIMARY_KEY] = uid]

Recorded(uid) == \E i \in DOMAIN db.idx : db.idx[i][PRIMARY_KEY] = uid

RecordsOf(T, uid) == {r \in db.rows[T] : r[ENTITY_REFERENCE] = uid}

\* The entity was given to add_entity, which stored it, or was read back.
Persisted(e) ==
    \/ e.origin = "loaded"
    \/ e.origin = "added" /\ e.uid \in DOMAIN added

\* The run has called the system at least once and is not inside a pass.
BetweenPasses == run.pc \in {"loop", "done", "error"} /\ run.invoked # <<>>

\* C1: when run(D) has returned or raised, the system (one that returns no
\* command) was called on exactly the entities whose index record holds
\* every required type of D and none of the excluded types of D.
C1_QueryCorrectness ==
    run.pc \in {"done", "error"} /\ run.h.cmds = {}
        => Range(run.invoked) = run.expect

\* C2: when run(D) has ended with a system that never returns BREAK,
\* count_matches(D), taken on the database the run started on, is the number
\* of index rows the run selected and the number of calls of the system.
C2_CountConsistency ==
    run.pc \in {"done", "error"} /\ BREAK \notin run.h.cmds /\ run.count # Null
        => /\ run.count = Len(run.found)
           /\ run.count = Len(run.invoked)

\* C3: while the system is called on an entity that was added and not saved
\* since, every required type is a type the entity was added with, and the
\* component passed for it has the field values it was added with.
C3_RoundTrip ==
    run.pc = "apply" /\ run.eid \in DOMAIN added /\ ~added[run.eid].touched
        => \A T \in run.D.req :
              /\ T \in DOMAIN added[run.eid].fields
              /\ T \in DOMAIN run.passed
              /\ FieldsOf(run.passed)[T] = added[run.eid].fields[T]

\* C3 acts: the second entity of a run is passed with the Counter it was
\* added with, at the largest value.
C3_Witness ==
    /\ run.pc = "apply" /\ Len(run.invoked) = 2
    /\ run.eid \in DOMAIN added /\ ~added[run.eid].touched
    /\ "Counter" \in run.D.req
    /\ added[run.eid].fields["Counter"]["n"] = MaxVal
    /\ run.passed["Counter"]["n"] = MaxVal
    /\ added[run.invoked[1]].fields["Counter"]["n"] # MaxVal

\* C4: after a pass in which the system returned SAVE_ENTITY, materializing
\* the entity again gives the components the system left on it.
C4_SavePersists ==
    BetweenPasses /\ run.h.cmds = {SAVE_ENTITY}
        => LET m == load_entity_from_ids(component_classes[run.s], db,
                                         IndexRowOf(run.eid))
           IN m.err = "" /\ m.e.components = ent.components

\* C5: after delete_entity on a persisted entity, called by the client or
\* for a system that returned DELETE_ENTITY, the index table has no record of
\* the entity and no component table has a record that refers to it.
Gone(uid) ==
    /\ ~Recorded(uid)
    /\ \A T \in db.tables : RecordsOf(T, uid) = {}

C5_DeleteRemoves ==
    /\ last.op = "delete_entity" /\ Persisted(ent) /\ ent.uid # Unset
          => Gone(ent.uid)
    /\ BetweenPasses /\ DELETE_ENTITY \in run.h.cmds => Gone(run.eid)

\* C6: an operation a backend does not implement (delete_entity of either
\* module, and the operations the object-store backend leaves to the base
\* class) ends in an error raised to the caller.
Unimplemented == {"delete_entity"} \cup {"gcs." \o op : op \in GcsOperations}

C6_NoSilentNoOp == last.op \in Unimplemented => last.ret = "raised"

\* C7: update_entity returns False on an entity that was never given to
\* add_entity, and True on a persisted entity.
C7_UpdateReturn ==
    last.op = "update_entity"
        => /\ ent.origin = "new" => last.ret = "False"
           /\ Persisted(ent) => last.ret = "True"

\* C8: a step that is update_entity(e), called by the client or for a system
\* that returned SAVE_ENTITY, leaves the schema and the index table as they
\* are, keeps the records of every table, and changes no record but those
\* that refer to e in the tables of the types loaded on e.
UpdateStep ==
    \/ last'.op = "update_entity"
    \/ run.pc = "apply" /\ SAVE_ENTITY \in run.h.cmds /\ DELETE_ENTITY \notin run.h.cmds

Keys(rows) == {<<r[PRIMARY_KEY], r[ENTITY_REFERENCE]>> : r \in rows}

UpdateFrame ==
    /\ db'.idx = db.idx /\ db'.idxCols = db.idxCols
    /\ db'.tables = db.tables /\ db'.cols = db.cols
    /\ \A T \in Types :
          /\ Keys(db'.rows[T]) = Keys(db.rows[T])
          /\ Cardinality(db'.rows[T]) = Cardinality(db.rows[T])
          /\ \A r \in db.rows[T] :
                r \in db'.rows[T]
                \/ (r[ENTITY_REFERENCE] = ent.uid /\ T \in DOMAIN ent.components)

C8_UpdateFrame == [][UpdateStep => UpdateFrame]_vars

\* C8 acts: a system saved a changed Counter onto an entity whose A is not
\* loaded, and another entity has a Counter record.
C8_Witness ==
    /\ BetweenPasses /\ run.h.cmds = {SAVE_ENTITY} /\ run.err = ""
    /\ "A" \in ent.unloaded /\ RecordsOf("A", run.eid) # {}
    /\ \E r \in RecordsOf("Counter", run.eid) :
          r["n"] # added[run.eid].fields["Counter"]["n"]
    /\ \E r \in db.rows["Counter"] : r[ENTITY_REFERENCE] # run.eid

\* C9: load_component(e, T) returns True when a record of T refers to e,
\* and then e has T loaded with the values of the record and T is not an
\* unloaded name of e; it returns False when no record of T refers to e.
C9_LoadComponent ==
    last.op = "load_component"
        => IF last.T \in db.tables /\ RecordsOf(last.T, ent.uid) # {}
           THEN /\ last.ret = "True"
                /\ last.T \in DOMAIN ent.components
                /\ last.T \notin ent.unloaded
                /\ \E r \in RecordsOf(last.T, ent.uid) :
                      ent.components[last.T] = StripStorageColumns(r)
           ELSE last.ret = "False"

\* C10: a store materializes an index row that holds a type its registry
\* does not know without an error, with the type among the unloaded names and
\* not among the loaded components; and a type that is an unloaded name of a
\* materialized entity becomes a loaded component of it by load_component
\* or get of that type only.
UnknownHeld(s, ids) ==
    {T \in Types : Holds(ids, T) /\ T \notin DOMAIN component_classes[s]}

MaterializesUnknown ==
    run.pc = "loop"
        => LET ids == run.found[run.index + 1]
               m   == load_entity_from_ids(component_classes[run.s], db, ids)
           IN /\ m.err = ""
              /\ \A T \in UnknownHeld(run.s, ids) :
                    T \in m.e.unloaded /\ T \notin DOMAIN m.e.components

PassedUnknown ==
    run.pc = "apply"
        => \A T \in UnknownHeld(run.s, IndexRowOf(run.eid)) :
              T \in ent.unloaded /\ T \notin DOMAIN ent.components

SameEntity == ent.origin = "loaded" /\ ent'.origin # "new" /\ run'.pc # "apply"

LoadedOnlyByLoad ==
    \A T \in Types :
        SameEntity /\ T \in ent.unloaded /\ T \in DOMAIN ent'.components
            => last'.op \in {"load_component", "get"} /\ last'.T = T

C10_UnloadedAccess ==
    /\ [](MaterializesUnknown /\ PassedUnknown)
    /\ [][LoadedOnlyByLoad]_vars

\* C10 acts: the reader was passed an entity that holds A, which it has not
\* registered, and then loaded A onto it.
C10_Witness ==
    /\ last.op = "load_component" /\ last.T = "A" /\ last.ret = "True"
    /\ ent.origin = "loaded" /\ "A" \in DOMAIN ent.components
    /\ "Counter" \in DOMAIN ent.components

\* C11: no component type of the entity the client or the system holds, and
\* of the entity a store would materialize from any index row, is at once a
\* loaded component and an unloaded name.
Disjoint(e) == DOMAIN e.components \cap e.unloaded = {}

C11_EntityInvariant ==
    /\ Disjoint(ent)
    /\ \A s \in Stores : \A i \in DOMAIN db.idx :
          Disjoint(load_entity_from_ids(component_classes[s], db, db.idx[i]).e)

\* C11 acts: a materialized entity had Counter among its unloaded names
\* while A was loaded, and load_component has loaded Counter onto it.
C11_Witness ==
    /\ last.op = "load_component" /\ last.T = "Counter" /\ last.ret = "True"
    /\ ent.origin = "loaded" /\ ent.unloaded = {}
    /\ DOMAIN ent.components = {"Counter", "A"}

\* A signature that asks twice for the same context slot.
Duplicated(ctx) == ctx.edb = 2 \/ ctx.entity = 2 \/ ctx.index = 2

\* C12: run of a system whose signature asks twice for the store handle,
\* twice for the entity handle or twice for the index raises, and leaves the
\* registry of the store and the database as they were; the system is never
\* called.
C12_DuplicateSlot ==
    /\ [](Duplicated(run.ctx) =>
            run.pc = "error" /\ run.err = "Exception" /\ run.invoked = <<>>)
    /\ [][Duplicated(run'.ctx) /\ run' # run =>
            /\ db' = db
            /\ component_classes' = component_classes
            /\ run'.found = <<>>]_vars

\* C12 acts: a system with two store-handle parameters was run on a store
\* that has not registered the type it requires, while an entity matches.
C12_Witness ==
    /\ run.pc = "error" /\ run.ctx.edb = 2
    /\ run.D.req = {"Counter"} /\ run.expect # {}
    /\ "Counter" \notin DOMAIN component_classes[run.s]

\* A call of _register_component_type has just returned or raised.
Registered == last'.op = "register" /\ last' # last

\* C13: when two processes register types on one database with their
\* statements interleaved, no registration raises.
C13_ConcurrentRegistration == last.op = "register" => last.ret # "raised"

\* C14: a call of _register_component_type returns True when the name was
\* not in the registry of the store and False when it was, puts the name in
\* the registry, and with a name that was there leaves the database and the
\* registry as they were.
C14_SequentialRegistration ==
    [][Registered =>
         /\ last'.ret = Bool(last'.T \notin DOMAIN component_classes[last'.s])
         /\ last'.T \in DOMAIN component_classes'[last'.s]
         /\ last'.T \in DOMAIN component_classes[last'.s] =>
               db' = db /\ component_classes' = component_classes]_vars

\* C14 acts: a call for Counter returned False on the store that had
\* registered Counter and holds a Counter record.
C14_Witness ==
    /\ last.op = "register" /\ last.s = Writer /\ last.T = "Counter"
    /\ last.ret = "False"
    /\ db.rows["Counter"] # {}

\* The record r2 is the record r with more columns, all of them NULL.
Widened(r, r2) ==
    /\ DOMAIN r \subseteq DOMAIN r2
    /\ \A k \in DOMAIN r : r2[k] = r[k]
    /\ \A k \in DOMAIN r2 \ DOMAIN r : r2[k] = Null

\* C15: no step removes a table or a column, and every record and every
\* index row is kept with its values, reading NULL in the columns a
\* registration has added.
C15_AdditiveWidening ==
    [][/\ db.tables \subseteq db'.tables
       /\ db.idxCols \subseteq db'.idxCols
       /\ \A T \in Types :
             /\ db.cols[T] \subseteq db'.cols[T]
             /\ \A r \in db.rows[T] : \E r2 \in db'.rows[T] : Widened(r, r2)
       /\ Len(db.idx) <= Len(db'.idx)
       /\ \A i \in DOMAIN db.idx : Widened(db.idx[i], db'.idx[i])]_vars

\* C15 acts: the writer registered Counter with the field n and added a
\* Counter at the largest value; a second store registered Counter with the
\* fields n and m, and the record reads its n and NULL for m.
C15_Witness ==
    /\ last.op = "register" /\ last.s = Reader /\ last.T = "Counter"
    /\ last.ret = "True"
    /\ "Counter" \in DOMAIN component_classes[Writer]
    /\ component_classes[Writer]["Counter"] = {"n"}
    /\ db.cols["Counter"] = {"n", "m"}
    /\ \E r \in db.rows["Counter"] : r["n"] = MaxVal /\ r["m"] = Null

\* C16: after any call of _register_component_type every field the class
\* declares has a column, and add_entity does not fail on a column.
C16_WideningKnownType ==
    /\ last.op = "register" =>
          get_instance_variables(last.s, last.T) \subseteq db.cols[last.T]
    /\ last.op = "add_entity" => last.err # "OperationalError"

\* C17: the pass that has just ended invoked delete_entity when the system
\* returned DELETE_ENTITY (with or without SAVE_ENTITY), update_entity when
\* it returned SAVE_ENTITY and no DELETE_ENTITY, neither otherwise; after
\* BREAK the loop has ended and the system was called once.
C17_CommandApplication ==
    BetweenPasses =>
        /\ DELETE_ENTITY \in run.h.cmds => run.applied = "delete_entity"
        /\ DELETE_ENTITY \notin run.h.cmds /\ SAVE_ENTITY \in run.h.cmds
              => run.applied = "update_entity"
        /\ DELETE_ENTITY \notin run.h.cmds /\ SAVE_ENTITY \notin run.h.cmds
              => run.applied = ""
        /\ BREAK \in run.h.cmds => run.pc # "loop" /\ Len(run.invoked) = 1

\* C17 acts: a system returned [DELETE_ENTITY, SAVE_ENTITY] after changing
\* the entity; delete_entity was invoked, the record is as it was added, and
\* the loop goes on to a second entity.
C17_Witness ==
    /\ run.pc = "loop" /\ Len(run.found) = 2 /\ Len(run.invoked) = 1
    /\ run.h.cmds = {DELETE_ENTITY, SAVE_ENTITY} /\ run.h.inc
    /\ run.applied = "delete_entity"
    /\ ~added[run.eid].touched
    /\ ent.components["Counter"]["n"] # added[run.eid].fields["Counter"]["n"]

\* C18: a system that asks once for a context slot is called with the store
\* bound to its store-handle parameter and the entity bound to its
\* entity-handle parameter, and the call never raises because of the slot.
C18_ContextInjection ==
    /\ run.pc = "apply" =>
          /\ run.ctx.edb = 1 => run.args.edb = {run.s}
          /\ run.ctx.entity = 1 => run.args.entity = {run.eid}
    /\ ~Duplicated(run.ctx) => run.err # "TypeError"

\* C19: the k-th call of a system that asks for the index receives k - 1.
C19_IterationIndex ==
    run.pc = "apply" /\ run.ctx.index = 1
        => run.args.index = {Len(run.invoked) - 1}

\* C19 acts: the second call receives 1 after the first call returned
\* SAVE_ENTITY.
C19_Witness ==
    /\ run.pc = "apply" /\ run.ctx.index = 1
    /\ Len(run.invoked) = 2 /\ run.args.index = {1}
    /\ run.h.cmds = {SAVE_ENTITY}

\* C20: in every call, each optional parameter receives the component the
\* database holds for the entity when the entity holds the type, and None
\* when it does not.
C20_OptionalSlots ==
    run.pc = "apply" =>
        \A T \in run.D.opt :
            run.args.opt[T] =
                IF Holds(IndexRowOf(run.eid), T)
                THEN {StripStorageColumns(r) : r \in RecordsOf(T, run.eid)}
                ELSE {}

\* C20 acts: the first entity of a run does not hold the optional Counter,
\* the second holds it at the largest value and the system receives it.
C20_Witness ==
    /\ run.pc = "apply" /\ run.D.opt = {"Counter"} /\ Len(run.invoked) = 2
    /\ ~Holds(IndexRowOf(run.invoked[1]), "Counter")
    /\ \E c \in run.args.opt["Counter"] : c["n"] = MaxVal

C22_PartialMaterialization ==
    run.pc = "apply" =>
        /\ DOMAIN run.passed \subseteq run.D.req \cup run.D.opt
        /\ \A T \in Types \ (run.D.req \cup run.D.opt) :
              Holds(IndexRowOf(run.eid), T) => T \in ent.unloaded

\* C23: once run has evaluated its predicate, every type the descriptor
\* mentions, excluded types included, has its column in the index table,
\* and with a required type neither the query of run nor that of
\* count_matches has raised.
C23_ProvisionedBeforeQuery ==
    run.pc # "idle" /\ run.D.req # {} =>
        /\ run.D.req \cup run.D.opt \cup run.D.exc \subseteq db.idxCols
        /\ ~(run.pc = "error" /\ run.invoked = <<>>)
        /\ run.count # Null

\* C24: no connection is left open between two operations: every
\* connection an operation opened, database creation included, was closed
\* by the time it returned or raised.
C24_ConnectionRelease == con = 0

\* C25: after a successful add_entity the returned id is the entity's uid,
\* the index record of that id refers, for every loaded type, to a record of
\* that type which carries the component's values and the entity's id, and
\* holds no reference for any other type; the reference ids are new.
C25_AddEntityIndexRecord ==
    /\ [](last.op = "add_entity" /\ last.err = "" =>
            /\ last.num = ent.uid
            /\ Recorded(ent.uid)
            /\ \A T \in Types :
                  IF T \in DOMAIN ent.components
                  THEN /\ Holds(IndexRowOf(ent.uid), T)
                       /\ \E r \in db.rows[T] :
                             /\ r[PRIMARY_KEY] = IndexRowOf(ent.uid)[T]
                             /\ r[ENTITY_REFERENCE] = ent.uid
                             /\ \A k \in DOMAIN ent.components[T] :
                                   r[k] = ent.components[T][k]
                  ELSE ~Holds(IndexRowOf(ent.uid), T))
    /\ [][last'.op = "add_entity" /\ last'.err = "" /\ drawn' # drawn =>
            \A T \in DOMAIN ent'.components : \A r \in db.rows[T] :
                r[PRIMARY_KEY] # db'.idx[Len(db'.idx)][T]]_vars

\* C25 acts: an entity with a Counter and an A was added after an entity
\* with a Counter only, so that its two reference ids differ.
C25_Witness ==
    /\ last.op = "add_entity" /\ last.err = ""
    /\ DOMAIN ent.components = {"Counter", "A"}
    /\ IndexRowOf(ent.uid)["Counter"] # IndexRowOf(ent.uid)["A"]
    /\ ent.components["Counter"]["n"] = MaxVal

\* The entities the object store lists under every required type.
GcsIntersection ==
    {e \in 1..gcs.drawn : \A T \in Range(gcs.run.req) : <<T, e>> \in gcs.cmp}

\* C26: a run of the object store over at least one required type hands to
\* the executor exactly the entities listed under every required type, and
\* none when one of the listed sets is empty.
C26_GcsIntersection ==
    (gcs.run.ran /\ gcs.run.req # <<>>) =>
        /\ gcs.run.err # "TypeError"
        /\ gcs.run.matched = GcsIntersection

\* C27: no entity handed to the executor of the object store holds an
\* excluded type, and an optional type removes no candidate.
C27_GcsExcluded ==
    (gcs.run.ran /\ gcs.run.req # <<>>) =>
        /\ \A e \in gcs.run.matched : \A T \in gcs.run.exc : <<T, e>> \notin gcs.cmp
        /\ \A e \in GcsIntersection :
              (\A T \in gcs.run.exc : <<T, e>> \notin gcs.cmp) => e \in gcs.run.matched

\* C28: add_entity of an entity that carries unloaded names raises nothing
\* and writes the index record of the entity.
C28_AddWithUnloadedNames ==
    last.op = "add_entity" /\ ent.unloaded # {} =>
        last.err = "" /\ Recorded(ent.uid)

\* C30: whatever store materializes whatever index row, every unloaded name
\* of the entity is a type the row holds a reference for.
C30_UnloadedNamesAreHeld ==
    \A s \in Stores : \A i \in DOMAIN db.idx :
        \A T \in load_entity_from_ids(component_classes[s], db, db.idx[i]).e.unloaded :
            Holds(db.idx[i], T)

\* C29: every reference in an index record is the id of a record of that
\* type that refers back to the entity of the index record; and a component
\* record whose entity has an index record is the one that index record
\* refers to, so what a failed or interrupted add_entity leaves is component
\* records of an entity without index record.
C29_NoDanglingReference ==
    /\ \A i \in DOMAIN db.idx : \A T \in DOMAIN db.idx[i] \ {PRIMARY_KEY} :
          db.idx[i][T] # Null =>
              \E r \in db.rows[T] :
                  /\ r[PRIMARY_KEY] = db.idx[i][T]
                  /\ r[ENTITY_REFERENCE] = db.idx[i][PRIMARY_KEY]
    /\ \A T \in Types : \A r \in db.rows[T] :
          Recorded(r[ENTITY_REFERENCE]) =>
              IndexRowOf(r[ENTITY_REFERENCE])[T] = r[PRIMARY_KEY]

\* C29 acts: after an entity with a Counter and an A was added, a process
\* died having written the Counter record of another entity and not its A
\* record: the Counter record has no index record.
C29_Witness ==
    /\ last.op = "add_entity" /\ last.err = "crashed"
    /\ \E i \in DOMAIN db.idx : Holds(db.idx[i], "Counter") /\ Holds(db.idx[i], "A")
    /\ \E r \in db.rows["Counter"] : ~Recorded(r[ENTITY_REFERENCE])
    /\ \A r \in db.rows["A"] : Recorded(r[ENTITY_REFERENCE])

\* C31: get(T) on an entity produced by materialization raises nothing;
\* afterwards T is not among the unloaded names, and the call returned the
\* component exactly when the entity now has T loaded.
C31_LazyGet ==
    (last.op = "get" /\ ent.origin = "loaded") =>
        /\ last.err = ""
        /\ last.T \notin ent.unloaded
        /\ last.ret = "component" <=> last.T \in DOMAIN ent.components

\* The entities the query of the run returned, in its order, and those the
\* handler of the run is to be called with: all of them, or the first one
\* when the handler returns BREAK.
FoundIds == [i \in DOMAIN run.found |-> run.found[i][PRIMARY_KEY]]

ToInvoke ==
    IF Breaks(run.h.cmds) /\ run.found # <<>> THEN <<FoundIds[1]>> ELSE FoundIds

\* C32: the handler is called with the entities that matched when the query
\* was evaluated, in the order returned, each once; a run that has ended
\* has called it with all of them, or with the first one when the handler
\* returns BREAK, whatever was added or saved meanwhile.
C32_SnapshotIteration ==
    /\ Range(FoundIds) = (IF run.pc = "idle" THEN {} ELSE run.expect)
    /\ Len(run.invoked) <= Len(FoundIds)
    /\ run.invoked = SubSeq(FoundIds, 1, Len(run.invoked))
    /\ run.pc \in {"done", "error"} => run.invoked = ToInvoke

\* A type of the registry of s has its table, its field columns and its
\* index column.
Provisioned(s, T) ==
    /\ T \in db.tables
    /\ component_classes[s][T] \subseteq db.cols[T]
    /\ T \in db.idxCols

\* C33: every type in the registry of a store that is not inside a
\* registration is provisioned, and a registration that raised has not left
\* its type in the registry.
C33_RegisteredImpliesProvisioned ==
    /\ \A s \in Registrars :
          reg[s].pc = "idle" =>
              \A T \in DOMAIN component_classes[s] : Provisioned(s, T)
    /\ (last.op = "register" /\ last.err # "") =>
          last.T \notin DOMAIN component_classes[last.s]

\* C34: with no required and no excluded type the query of run and of
\* count_matches raises nothing, count_matches returns the number of
\* persisted entities, and a run that has ended with a system returning no
\* command has called it on every persisted entity.
C34_EmptyPredicate ==
    (run.pc # "idle" /\ run.D.req = {} /\ run.D.exc = {}) =>
        /\ run.err # "OperationalError"
        /\ run.count = Cardinality(run.expect)
        /\ (run.pc \in {"done", "error"} /\ run.h.cmds = {}) =>
              Range(run.invoked) = run.expect

\* C35: update_entity on a persisted entity, called by the client or for a
\* system that returned SAVE_ENTITY, raises nothing whatever the number of
\* fields of the loaded components, and the records of the entity then
\* carry the fields of every loaded component.
C35_UpdateFieldless ==
    /\ (last.op = "update_entity" /\ Persisted(ent)) =>
          /\ last.err = ""
          /\ \A T \in DOMAIN ent.components : \A r \in RecordsOf(T, ent.uid) :
                \A f \in Range(get_variables_of(ent.components[T])) :
                    r[f] = ent.components[T][f]
    /\ run.applied = "update_entity" => run.err = ""

\* What holds of the operations above apart from the failures the claims
\* C1, C2, C4, C7 and C9 run into.
\* A run whose query and whose passes raised nothing called the system on
\* exactly the matching entities.
QueryCorrectUnlessRaised ==
    run.pc \in {"done", "error"} /\ run.h.cmds = {} /\ run.err = ""
        => Range(run.invoked) = run.expect

\* A query raises only for a descriptor with no required and no excluded
\* type, or with an excluded type that has no column in the index table.
QueryRaisesOnlyFor ==
    run.pc = "error" /\ run.invoked = <<>>
        => \/ run.D.req \cup run.D.exc = {}
           \/ \E T \in run.D.exc : T \notin db.idxCols

\* count_matches(D) is the number of index rows run(D) selects, and the
\* number of calls of a system that returns no BREAK when the run returns.
CountIsSelected ==
    /\ run.pc \in {"loop", "apply", "done", "error"} /\ run.count # Null
          => run.count = Len(run.found)
    /\ run.pc = "done" /\ BREAK \notin run.h.cmds => run.count = Len(run.invoked)

\* A save that raised nothing is read back, and a save raises only on an
\* entity with a component that has no field.
SavePersistsUnlessRaised ==
    /\ BetweenPasses /\ run.h.cmds = {SAVE_ENTITY} /\ run.err = ""
          => LET m == load_entity_from_ids(component_classes[run.s], db,
                                           IndexRowOf(run.eid))
             IN m.err = "" /\ m.e.components = ent.components
    /\ run.pc = "error" /\ run.h.cmds = {SAVE_ENTITY}
          => "A" \in DOMAIN ent.components

\* In a race one of the two registrations goes through: when no process is
\* inside the call, every registered type has its table, a column for every
\* field and its index column.
RaceLeavesSchemaComplete ==
    (\A s \in Registrars : reg[s].pc = "idle") =>
        \A s \in Registrars : \A T \in DOMAIN component_classes[s] :
            /\ T \in db.tables
            /\ component_classes[s][T] \subseteq db.cols[T]
            /\ T \in db.idxCols

\* Taken alone, a registration makes every declared field a column: a field
\* lacks its column only on a store that knew the name before the class was
\* redefined.
WideningOnlyWhenNew ==
    [][Registered /\ last'.ret = "True" =>
         get_instance_variables(last'.s, last'.T) \subseteq db'.cols[last'.T]]_vars

\* update_entity never returns False.
UpdateNeverFalse == last.op = "update_entity" => last.ret \in {"True", "raised"}

\* load_component raises on an entity without uid and nowhere else.
LoadRaisesWithoutUid ==
    last.op = "load_component" => (last.ret = "raised" <=> ent.uid = Unset)

\* After database creation, only an operation that raises leaves one more
\* connection open than there was.
OnlyFailuresLeak ==
    [][con' > con => (last'.err # "" \/ run'.err # "")]_vars

\* The part of snapshot iteration that holds: the rows fetched by the query
\* are the matching entities of that moment, no write of another process
\* changes them, the calls follow them in order, and a run that ends without
\* raising has made every call due.
SnapshotUnlessRaised ==
    /\ [](/\ Range(FoundIds) = (IF run.pc = "idle" THEN {} ELSE run.expect)
          /\ Len(run.invoked) <= Len(FoundIds)
          /\ run.invoked = SubSeq(FoundIds, 1, Len(run.invoked))
          /\ run.pc = "done" => run.invoked = ToInvoke)
    /\ [][(~Quiet /\ run'.pc # "idle") => run'.found = run.found]_vars

=============================================================================
